---------------------------- MODULE Spec2Model ----------------------------
(***************************************************************************)
(* seller-apis: synchronisation of a supplier's stock feed with two        *)
(* marketplaces (src/seller.py: Marketplace B, src/market.py:              *)
(* Marketplace A).                                                         *)
(*                                                                         *)
(* Python values are modelled by what the code does with them:             *)
(*   - a str is a sequence of one-character strings, <<"5", ".", "0">>;    *)
(*   - a spreadsheet cell is a tagged value, Str(<<...>>) or Int(n), so    *)
(*     that str(cell) and int(cell) are real conversions;                  *)
(*   - a call that may raise returns [raised |-> <exception>, ...].        *)
(* Record fields Code, Quantity and Price stand for the feed's columns     *)
(* "Код", "Количество" and "Цена".                                         *)
(***************************************************************************)
EXTENDS Integers, Sequences, FiniteSets, TLC

VARIABLES
    call,           \* function harness: the function called and its arguments
    returned,       \* function harness: whether the call has returned
    ret,            \* function harness: what the call returned or raised
    entry,          \* the function that runs: main, get_offer_ids or
                    \* upload_prices of seller or market
    pc,             \* the statement the run is at
    campaign,       \* the client or campaign identifier of the current calls
    catalog,        \* environment: the offers each marketplace campaign lists
    feed,           \* environment: the rows of the supplier's spreadsheet
    watch_remnants, \* main: the rows download_stock returned
    offer_ids,      \* main: the list get_offer_ids returned, changed in place
    stocks,         \* main: the stock records
    prices,         \* main: the price records
    batches,        \* main: the batches the running for loop has yet to submit
    page,           \* get_offer_ids: page (market) or last_id (seller)
    product_list,   \* get_offer_ids: the items accumulated
    http,           \* the HTTP exchanges completed, in order
    printed,        \* what main printed
    escaped,        \* the exception that left main, "none" when none did
    coroutines      \* coroutine objects created and never awaited

fnVars == <<call, returned, ret>>

runVars == <<entry, pc, campaign, catalog, feed, watch_remnants, offer_ids,
             stocks, prices, batches, page, product_list, http, printed,
             escaped, coroutines>>

vars == <<call, returned, ret, entry, pc, campaign, catalog, feed,
          watch_remnants, offer_ids, stocks, prices, batches, page,
          product_list, http, printed, escaped, coroutines>>

---------------------------------------------------------------------------
(* Bounds of the model *)

MaxLen == 5         \* longest list handed to divide
MaxChunk == 3       \* largest chunk size handed to divide
MaxPriceLen == 4    \* longest price string handed to price_conversion
MaxRows == 2        \* most supplier rows in the feed
MaxPage == 2        \* most items the listing service puts on one page

---------------------------------------------------------------------------
(* Python built-ins *)

Range(s) == {s[i] : i \in 1..Len(s)}

Min(a, b) == IF a < b THEN a ELSE b

SeqsUpTo(S, k) == UNION {[1..m -> S] : m \in 0..k}

DigitChars == <<"0", "1", "2", "3", "4", "5", "6", "7", "8", "9">>

IsDigit(c) == c \in Range(DigitChars)

DigitVal(c) == (CHOOSE d \in 1..10 : DigitChars[d] = c) - 1

\* lst[a:b] for 0 <= a, 0 <= b: the elements at 0-based positions a..b-1,
\* the end clamped to the list's length
Slice(lst, a, b) == SubSeq(lst, a + 1, Min(b, Len(lst)))

\* the 1-based position of the first sep in s, 0 when there is none (str.find)
Find(s, sep) ==
    IF \E i \in 1..Len(s) : s[i] = sep
    THEN CHOOSE i \in 1..Len(s) : s[i] = sep /\ \A j \in 1..(i - 1) : s[j] # sep
    ELSE 0

\* s.split(sep) for a one-character sep: the list of the parts between seps
RECURSIVE split(_, _)
split(s, sep) ==
    LET k == Find(s, sep)
    IN  IF k = 0 THEN <<s>>
        ELSE <<SubSeq(s, 1, k - 1)>> \o split(SubSeq(s, k + 1, Len(s)), sep)

\* re.sub("[^0-9]", "", s)
re_sub_non_digits(s) == SelectSeq(s, IsDigit)

---------------------------------------------------------------------------
(* seller.price_conversion *)

\* a conversion that does not cut the string at the first "."
price_conversion_whole(price) == re_sub_non_digits(price)

price_conversion(price) == re_sub_non_digits(split(price, ".")[1])

---------------------------------------------------------------------------
(* seller.divide, consumed whole as in list(divide(lst, n)) *)

RECURSIVE divide_from(_, _, _)
divide_from(lst, n, i) ==
    IF i >= Len(lst) THEN <<>>
    ELSE <<Slice(lst, i, i + n)>> \o divide_from(lst, n, i + n)

\* a divide whose slices are one element short: lst[i : i + n - 1]
RECURSIVE divide_short_from(_, _, _)
divide_short_from(lst, n, i) ==
    IF i >= Len(lst) THEN <<>>
    ELSE <<Slice(lst, i, i + n - 1)>> \o divide_short_from(lst, n, i + n)

divide_short(lst, n) == divide_short_from(lst, n, 0)

divide(lst, n) == divide_from(lst, n, 0)

---------------------------------------------------------------------------
(* Spreadsheet cells and the conversions the reconciler applies to them *)

Str(chars) == [t |-> "str", v |-> chars]

Int_(n) == [t |-> "int", v |-> n]

Ok(x) == [raised |-> "none", value |-> x]

Raise(exc) == [raised |-> exc, value |-> <<>>]

\* the decimal digits of n >= 0
RECURSIVE Decimal(_)
Decimal(n) ==
    IF n < 10 THEN <<DigitChars[n + 1]>>
    ELSE Decimal(n \div 10) \o <<DigitChars[(n % 10) + 1]>>

\* str(x): a str is itself, an int is its decimal notation
str(x) ==
    IF x.t = "str" THEN x.v
    ELSE IF x.v < 0 THEN <<"-">> \o Decimal(-x.v) ELSE Decimal(x.v)

\* s.strip() for the blank character
RECURSIVE strip(_)
strip(s) ==
    IF s # <<>> /\ Head(s) = " " THEN strip(Tail(s))
    ELSE IF s # <<>> /\ s[Len(s)] = " " THEN strip(SubSeq(s, 1, Len(s) - 1))
    ELSE s

\* the value of a non-empty string of digits
RECURSIVE DigitsValue(_)
DigitsValue(ds) ==
    IF ds = <<>> THEN 0
    ELSE 10 * DigitsValue(SubSeq(ds, 1, Len(ds) - 1)) + DigitVal(ds[Len(ds)])

\* int(x): an int is itself; a str is stripped, may carry a sign, and must
\* then be digits only, or ValueError is raised
int(x) ==
    IF x.t = "int" THEN Ok(x.v)
    ELSE LET s == strip(x.v)
             signed == s # <<>> /\ Head(s) \in {"+", "-"}
             ds == IF signed THEN Tail(s) ELSE s
         IN  IF ds = <<>> \/ \E i \in 1..Len(ds) : ~IsDigit(ds[i])
             THEN Raise("ValueError")
             ELSE IF signed /\ Head(s) = "-" THEN Ok(-DigitsValue(ds))
             ELSE Ok(DigitsValue(ds))

\* x in lst
In(x, lst) == \E i \in 1..Len(lst) : lst[i] = x

\* a remove that leaves the list as it is
remove_nothing(lst, x) == lst

\* lst.remove(x), x in lst: the list without the first occurrence of x
remove(lst, x) ==
    LET k == CHOOSE i \in 1..Len(lst) :
                 lst[i] = x /\ \A j \in 1..(i - 1) : lst[j] # x
    IN  SubSeq(lst, 1, k - 1) \o SubSeq(lst, k + 1, Len(lst))

---------------------------------------------------------------------------
(* create_stocks, both marketplaces *)

\* a classification without the elif count == "1" branch
stock_of_first_branch_only(watch) ==
    LET count == str(watch.Quantity)
    IN  IF count = <<">", "1", "0">> THEN Ok(100)
        ELSE int(watch.Quantity)

\* the count of a matched row: seller.py 151-157, market.py 134-140
stock_of(watch) ==
    LET count == str(watch.Quantity)
    IN  IF count = <<">", "1", "0">> THEN Ok(100)
        ELSE IF count = <<"1">> THEN Ok(0)
        ELSE int(watch.Quantity)

seller_stock_record(offer_id, stock) == [offer_id |-> offer_id, stock |-> stock]

market_stock_record(sku, stock, warehouse_id, date) ==
    [sku |-> sku,
     warehouseId |-> warehouse_id,
     items |-> <<[count |-> stock, type |-> "FIT", updatedAt |-> date]>>]

\* the first loop of create_stocks from row i on: a matched row appends a
\* record and removes its identifier from offer_ids (here ids); an
\* exception leaves the caller's list as mutated so far
RECURSIVE seller_match_rows(_, _, _, _)
seller_match_rows(remnants, i, acc, ids) ==
    IF i > Len(remnants)
    THEN [raised |-> "none", stocks |-> acc, offer_ids |-> ids]
    ELSE LET watch == remnants[i]
         IN  IF In(str(watch.Code), ids)
             THEN LET stock == stock_of(watch)
                  IN  IF stock.raised # "none"
                      THEN [raised |-> stock.raised, stocks |-> <<>>,
                            offer_ids |-> ids]
                      ELSE seller_match_rows(
                               remnants, i + 1,
                               Append(acc,
                                      seller_stock_record(str(watch.Code), stock.value)),
                               remove(ids, str(watch.Code)))
             ELSE seller_match_rows(remnants, i + 1, acc, ids)

\* seller.create_stocks: [raised, stocks (the return value), offer_ids (the
\* caller's list after the call)]
seller_create_stocks(remnants, ids) ==
    LET m == seller_match_rows(remnants, 1, <<>>, ids)
    IN  IF m.raised # "none" THEN m
        ELSE [m EXCEPT !.stocks =
                 m.stocks \o [k \in 1..Len(m.offer_ids) |->
                                 seller_stock_record(m.offer_ids[k], 0)]]

\* datetime.utcnow() as create_stocks formats it: the clock is read once
UtcNow == "2024-01-01T00:00:00Z"

RECURSIVE market_match_rows(_, _, _, _, _)
market_match_rows(remnants, i, acc, ids, warehouse_id) ==
    IF i > Len(remnants)
    THEN [raised |-> "none", stocks |-> acc, offer_ids |-> ids]
    ELSE LET watch == remnants[i]
         IN  IF In(str(watch.Code), ids)
             THEN LET stock == stock_of(watch)
                  IN  IF stock.raised # "none"
                      THEN [raised |-> stock.raised, stocks |-> <<>>,
                            offer_ids |-> ids]
                      ELSE market_match_rows(
                               remnants, i + 1,
                               Append(acc,
                                      market_stock_record(str(watch.Code), stock.value,
                                                          warehouse_id, UtcNow)),
                               remove(ids, str(watch.Code)),
                               warehouse_id)
             ELSE market_match_rows(remnants, i + 1, acc, ids, warehouse_id)

\* market.create_stocks
market_create_stocks(remnants, ids, warehouse_id) ==
    LET m == market_match_rows(remnants, 1, <<>>, ids, warehouse_id)
    IN  IF m.raised # "none" THEN m
        ELSE [m EXCEPT !.stocks =
                 m.stocks \o [k \in 1..Len(m.offer_ids) |->
                                 market_stock_record(m.offer_ids[k], 0,
                                                     warehouse_id, UtcNow)]]

---------------------------------------------------------------------------
(* create_prices, both marketplaces *)

\* price_conversion on a cell: a value that is no str has no split
price_conversion_of(cell) ==
    IF cell.t = "str" THEN Ok(price_conversion(cell.v))
    ELSE Raise("AttributeError")

seller_price_record(offer_id, price) ==
    [auto_action_enabled |-> "UNKNOWN",
     currency_code |-> "RUB",
     offer_id |-> offer_id,
     old_price |-> "0",
     price |-> price]

market_price_record(id, value) ==
    [id |-> id, price |-> [value |-> value, currencyId |-> "RUR"]]

\* seller.create_prices: offer_ids (here ids) is read, never changed
RECURSIVE seller_prices_from(_, _, _, _)
seller_prices_from(remnants, i, acc, ids) ==
    IF i > Len(remnants) THEN [raised |-> "none", prices |-> acc]
    ELSE LET watch == remnants[i]
         IN  IF In(str(watch.Code), ids)
             THEN LET price == price_conversion_of(watch.Price)
                  IN  IF price.raised # "none"
                      THEN [raised |-> price.raised, prices |-> <<>>]
                      ELSE seller_prices_from(
                               remnants, i + 1,
                               Append(acc,
                                      seller_price_record(str(watch.Code), price.value)),
                               ids)
             ELSE seller_prices_from(remnants, i + 1, acc, ids)

seller_create_prices(remnants, ids) ==
    seller_prices_from(remnants, 1, <<>>, ids)

\* market.create_prices: the price is int(price_conversion(...))
RECURSIVE market_prices_from(_, _, _, _)
market_prices_from(remnants, i, acc, ids) ==
    IF i > Len(remnants) THEN [raised |-> "none", prices |-> acc]
    ELSE LET watch == remnants[i]
         IN  IF In(str(watch.Code), ids)
             THEN LET price == price_conversion_of(watch.Price)
                      value == IF price.raised # "none" THEN price
                               ELSE int(Str(price.value))
                  IN  IF value.raised # "none"
                      THEN [raised |-> value.raised, prices |-> <<>>]
                      ELSE market_prices_from(
                               remnants, i + 1,
                               Append(acc,
                                      market_price_record(str(watch.Code), value.value)),
                               ids)
             ELSE market_prices_from(remnants, i + 1, acc, ids)

market_create_prices(remnants, ids) ==
    market_prices_from(remnants, 1, <<>>, ids)

---------------------------------------------------------------------------
(* The function harness: Init draws a call, one action per function *)

PriceChars == {"1", "5", ".", "'", "x"}

Elems == {"a", "b"}

DivideCalls ==
    {[fn |-> "divide", lst |-> l, n |-> k] :
        l \in SeqsUpTo(Elems, MaxLen), k \in 1..MaxChunk}

PriceCalls ==
    {[fn |-> "price_conversion", price |-> p] :
        p \in SeqsUpTo(PriceChars, MaxPriceLen)}

\* the offer identifiers the marketplaces know; "7" is a numeric code
OfferIdUniverse == {<<"A">>, <<"7">>}

\* every list of offer identifiers without duplicates
OfferIdLists ==
    {l \in SeqsUpTo(OfferIdUniverse, Cardinality(OfferIdUniverse)) :
        \A i, j \in 1..Len(l) : l[i] = l[j] => i = j}

\* the Code cells of the feed: a text code, a numeric code, a code no
\* marketplace knows
Codes == {Str(<<"A">>), Int_(7), Str(<<"Z">>)}

\* the Quantity cells of the feed: ">10", "1", "7", "0", "10", an empty
\* cell, a word, and the numbers 1 and 7
Quantities ==
    {Str(<<">", "1", "0">>), Str(<<"1">>), Str(<<"7">>), Str(<<"0">>),
     Str(<<"1", "0">>), Str(<<>>), Str(<<"n", "o">>), Int_(1), Int_(7)}

\* the Price cells of the feed: "15.5x", "x" (no digit) and the number 5
Prices == {Str(<<"1", "5", ".", "5", "x">>), Str(<<"x">>), Int_(5)}

StockRows ==
    {[Code |-> c, Quantity |-> q, Price |-> Str(<<"1", "5", ".", "5", "x">>)] :
        c \in Codes, q \in Quantities}

PriceRows ==
    {[Code |-> c, Quantity |-> Str(<<">", "1", "0">>), Price |-> p] :
        c \in Codes, p \in Prices}

StocksCalls ==
    {[fn |-> f, watch_remnants |-> w, offer_ids |-> o,
      warehouse_id |-> "WAREHOUSE_FBS_ID"] :
        f \in {"seller.create_stocks", "market.create_stocks"},
        w \in SeqsUpTo(StockRows, MaxRows), o \in OfferIdLists}

PricesCalls ==
    {[fn |-> f, watch_remnants |-> w, offer_ids |-> o] :
        f \in {"seller.create_prices", "market.create_prices"},
        w \in SeqsUpTo(PriceRows, MaxRows), o \in OfferIdLists}

\* no entry point runs
NoRun ==
    /\ entry = "none"
    /\ pc = "none"
    /\ campaign = "none"
    /\ catalog = <<>>
    /\ feed = <<>>
    /\ watch_remnants = <<>>
    /\ offer_ids = <<>>
    /\ stocks = <<>>
    /\ prices = <<>>
    /\ batches = <<>>
    /\ page = <<>>
    /\ product_list = <<>>
    /\ http = <<>>
    /\ printed = <<>>
    /\ escaped = "none"
    /\ coroutines = 0

FnInit ==
    /\ call \in DivideCalls \cup PriceCalls \cup StocksCalls \cup PricesCalls
    /\ returned = FALSE
    /\ ret = <<>>
    /\ NoRun

Call_divide ==
    /\ ~returned
    /\ call.fn = "divide"
    /\ ret' = divide(call.lst, call.n)
    /\ returned' = TRUE
    /\ UNCHANGED <<call, runVars>>

Call_price_conversion ==
    /\ ~returned
    /\ call.fn = "price_conversion"
    /\ ret' = price_conversion(call.price)
    /\ returned' = TRUE
    /\ UNCHANGED <<call, runVars>>

Call_seller_create_stocks ==
    /\ ~returned
    /\ call.fn = "seller.create_stocks"
    /\ ret' = seller_create_stocks(call.watch_remnants, call.offer_ids)
    /\ returned' = TRUE
    /\ UNCHANGED <<call, runVars>>

Call_market_create_stocks ==
    /\ ~returned
    /\ call.fn = "market.create_stocks"
    /\ ret' = market_create_stocks(call.watch_remnants, call.offer_ids,
                                   call.warehouse_id)
    /\ returned' = TRUE
    /\ UNCHANGED <<call, runVars>>

Call_seller_create_prices ==
    /\ ~returned
    /\ call.fn = "seller.create_prices"
    /\ ret' = seller_create_prices(call.watch_remnants, call.offer_ids)
    /\ returned' = TRUE
    /\ UNCHANGED <<call, runVars>>

Call_market_create_prices ==
    /\ ~returned
    /\ call.fn = "market.create_prices"
    /\ ret' = market_create_prices(call.watch_remnants, call.offer_ids)
    /\ returned' = TRUE
    /\ UNCHANGED <<call, runVars>>

FnNext ==
    \/ Call_divide
    \/ Call_price_conversion
    \/ Call_seller_create_stocks
    \/ Call_market_create_stocks
    \/ Call_seller_create_prices
    \/ Call_market_create_prices

FnSpec == FnInit /\ [][FnNext]_vars

---------------------------------------------------------------------------
(* The listing services (environment).  A page token and a last_id are     *)
(* opaque strings: the service hands out the decimal notation of the       *)
(* number of items served so far, and "" (also standing for an absent      *)
(* token) means none.                                                      *)

SellerListLimit == 1000

MarketListLimit == 200

\* how many items a page may hold: at least one while items remain
PageSizes(listing, token, limit) ==
    LET left == Len(listing) - DigitsValue(token)
    IN  IF left <= 0 THEN {0} ELSE 1..Min(Min(MaxPage, limit), left)

\* the body of the seller listing response: "result" of /v2/product/list
seller_listing_result(listing, last_id, k) ==
    LET pos == DigitsValue(last_id)
    IN  [items |-> [i \in 1..k |-> [offer_id |-> listing[pos + i]]],
         total |-> Len(listing),
         last_id |-> IF pos + k = 0 THEN <<>> ELSE Decimal(pos + k)]

\* the body of the market listing response: "result" of offer-mapping-entries
market_listing_result(listing, page_token, k) ==
    LET pos == DigitsValue(page_token)
    IN  [offerMappingEntries |->
             [i \in 1..k |-> [offer |-> [shopSku |-> listing[pos + i]]]],
         paging |-> [nextPageToken |->
                        IF pos + k < Len(listing) THEN Decimal(pos + k) ELSE <<>>]]

Exchange(op, sent, got) == [op |-> op, campaign |-> campaign, sent |-> sent, got |-> got]

\* what requests raises: a timeout, a connection error, a non-2xx status
NetworkErrors == {"ReadTimeout", "ConnectionError", "HTTPError"}

---------------------------------------------------------------------------
(* get_offer_ids, both marketplaces: one action per iteration of the loop  *)

Module ==
    IF entry \in {"seller.main", "seller.get_offer_ids", "seller.upload_prices"}
    THEN "seller" ELSE "market"

\* where the caller goes on when get_offer_ids returns
AfterGetOfferIds ==
    CASE entry = "seller.main" -> "download_stock"
      [] entry = "market.main" -> "create_stocks"
      [] entry \in {"seller.upload_prices", "market.upload_prices"} -> "create_prices"
      [] OTHER -> "returned"

\* a loop that breaks after its first page
seller_exhausted_at_once(total, items) == TRUE

\* seller.py 60: total == len(product_list)
seller_exhausted(total, items) == total = Len(items)

\* market.py 110: not page
market_exhausted(token) == token = <<>>

seller_get_offer_ids_iteration ==
    /\ pc = "get_offer_ids"
    /\ Module = "seller"
    /\ \E k \in PageSizes(catalog[campaign], page, SellerListLimit) :
          LET some_prod == seller_listing_result(catalog[campaign], page, k)
              extended == product_list \o some_prod.items
          IN  /\ http' = Append(http, Exchange("list", page, some_prod))
              /\ IF seller_exhausted(some_prod.total, extended)
                 THEN /\ offer_ids' = [i \in 1..Len(extended) |-> extended[i].offer_id]
                      /\ pc' = AfterGetOfferIds
                      /\ page' = <<>>
                      /\ product_list' = <<>>
                 ELSE /\ page' = some_prod.last_id
                      /\ product_list' = extended
                      /\ UNCHANGED <<pc, offer_ids>>
    /\ UNCHANGED <<fnVars, entry, campaign, catalog, feed, watch_remnants,
                   stocks, prices, batches, printed, escaped, coroutines>>

market_get_offer_ids_iteration ==
    /\ pc = "get_offer_ids"
    /\ Module = "market"
    /\ \E k \in PageSizes(catalog[campaign], page, MarketListLimit) :
          LET some_prod == market_listing_result(catalog[campaign], page, k)
              extended == product_list \o some_prod.offerMappingEntries
          IN  /\ http' = Append(http, Exchange("list", page, some_prod))
              /\ IF market_exhausted(some_prod.paging.nextPageToken)
                 THEN /\ offer_ids' =
                             [i \in 1..Len(extended) |-> extended[i].offer.shopSku]
                      /\ pc' = AfterGetOfferIds
                      /\ page' = <<>>
                      /\ product_list' = <<>>
                 ELSE /\ page' = some_prod.paging.nextPageToken
                      /\ product_list' = extended
                      /\ UNCHANGED <<pc, offer_ids>>
    /\ UNCHANGED <<fnVars, entry, campaign, catalog, feed, watch_remnants,
                   stocks, prices, batches, printed, escaped, coroutines>>

\* the offers a campaign may list: no identifier twice
CatalogIds == {<<"A">>, <<"7">>, <<"B">>}

Catalogs ==
    {l \in SeqsUpTo(CatalogIds, Cardinality(CatalogIds)) :
        \A i, j \in 1..Len(l) : l[i] = l[j] => i = j}

NoCall ==
    /\ call = [fn |-> "none"]
    /\ returned = FALSE
    /\ ret = <<>>

\* get_offer_ids called on its own, against a service that does not fail
OffersInit ==
    /\ NoCall
    /\ \/ entry = "seller.get_offer_ids" /\ campaign = "CLIENT_ID"
       \/ entry = "market.get_offer_ids" /\ campaign = "FBS_ID"
    /\ pc = "get_offer_ids"
    /\ catalog \in [{campaign} -> Catalogs]
    /\ feed = <<>>
    /\ watch_remnants = <<>>
    /\ offer_ids = <<>>
    /\ stocks = <<>>
    /\ prices = <<>>
    /\ batches = <<>>
    /\ page = <<>>
    /\ product_list = <<>>
    /\ http = <<>>
    /\ printed = <<>>
    /\ escaped = "none"
    /\ coroutines = 0

OffersNext ==
    \/ seller_get_offer_ids_iteration
    \/ market_get_offer_ids_iteration

\* the interpreter runs the loop on: a single thread that nothing suspends
OffersSpec == OffersInit /\ [][OffersNext]_vars /\ WF_vars(OffersNext)

---------------------------------------------------------------------------
(* The entry points seller.main and market.main, and upload_prices of both *)
(* modules driven to completion by an awaiting caller                      *)

SellerStockBatch == 100

SellerPriceBatch == 900

SellerUploadPriceBatch == 1000

MarketStockBatch == 2000

MarketPriceBatch == 500

Mains == {"seller.main", "market.main"}

Warehouse == IF campaign = "FBS_ID" THEN "WAREHOUSE_FBS_ID" ELSE "WAREHOUSE_DBS_ID"

\* what the matching except clause of main prints
except_clause(exc) ==
    CASE exc = "ReadTimeout" -> <<"timeout message">>
      [] exc = "ConnectionError" -> <<exc, "connection error message">>
      [] OTHER -> <<exc, "ERROR_2">>

\* an exception raised inside main's try block
Handle(exc) ==
    /\ pc' = "handled"
    /\ printed' = Append(printed, except_clause(exc))

download_stock_returns ==
    /\ pc = "download_stock"
    /\ watch_remnants' = feed
    /\ http' = Append(http, Exchange("feed", <<>>, feed))
    /\ pc' = IF entry = "seller.main" THEN "create_stocks" ELSE "get_offer_ids"
    /\ UNCHANGED <<fnVars, entry, campaign, catalog, feed, offer_ids, stocks,
                   prices, batches, page, product_list, printed, escaped,
                   coroutines>>

\* seller.main calls download_stock inside its try block, market.main
\* before it
download_stock_raises ==
    /\ pc = "download_stock"
    /\ \E exc \in NetworkErrors :
          IF entry = "seller.main"
          THEN Handle(exc) /\ UNCHANGED escaped
          ELSE pc' = "crashed" /\ escaped' = exc /\ UNCHANGED printed
    /\ UNCHANGED <<fnVars, entry, campaign, catalog, feed, watch_remnants,
                   offer_ids, stocks, prices, batches, page, product_list,
                   http, coroutines>>

\* get_product_list raises inside get_offer_ids, called from main's try block
get_product_list_raises ==
    /\ pc = "get_offer_ids"
    /\ entry \in Mains
    /\ \E exc \in NetworkErrors : Handle(exc)
    /\ UNCHANGED <<fnVars, entry, campaign, catalog, feed, watch_remnants,
                   offer_ids, stocks, prices, batches, page, product_list,
                   http, escaped, coroutines>>

\* seller.py 260-261: create_stocks, then the list of batches of the for loop
seller_main_create_stocks ==
    /\ pc = "create_stocks"
    /\ entry = "seller.main"
    /\ LET r == seller_create_stocks(watch_remnants, offer_ids)
       IN  /\ offer_ids' = r.offer_ids
           /\ IF r.raised = "none"
              THEN /\ stocks' = r.stocks
                   /\ batches' = divide(r.stocks, SellerStockBatch)
                   /\ pc' = "update_stocks"
                   /\ UNCHANGED printed
              ELSE Handle(r.raised) /\ UNCHANGED <<stocks, batches>>
    /\ UNCHANGED <<fnVars, entry, campaign, catalog, feed, watch_remnants,
                   prices, page, product_list, http, escaped, coroutines>>

\* market.py 264-265 and 273-274
market_main_create_stocks ==
    /\ pc = "create_stocks"
    /\ entry = "market.main"
    /\ LET r == market_create_stocks(watch_remnants, offer_ids, Warehouse)
       IN  /\ offer_ids' = r.offer_ids
           /\ IF r.raised = "none"
              THEN /\ stocks' = r.stocks
                   /\ batches' = divide(r.stocks, MarketStockBatch)
                   /\ pc' = "update_stocks"
                   /\ UNCHANGED printed
              ELSE Handle(r.raised) /\ UNCHANGED <<stocks, batches>>
    /\ UNCHANGED <<fnVars, entry, campaign, catalog, feed, watch_remnants,
                   prices, page, product_list, http, escaped, coroutines>>

\* one iteration of a for loop over batches: update_stocks or update_price
\* posts the batch and returns
update_batch ==
    /\ pc \in {"update_stocks", "update_price"}
    /\ batches # <<>>
    /\ http' = Append(http, Exchange(pc, Head(batches), "ok"))
    /\ batches' = Tail(batches)
    /\ UNCHANGED <<fnVars, entry, pc, campaign, catalog, feed, watch_remnants,
                   offer_ids, stocks, prices, page, product_list, printed,
                   escaped, coroutines>>

\* update_stocks or update_price raises, called from main's try block
update_batch_raises ==
    /\ pc \in {"update_stocks", "update_price"}
    /\ entry \in Mains
    /\ batches # <<>>
    /\ \E exc \in NetworkErrors : Handle(exc)
    /\ UNCHANGED <<fnVars, entry, campaign, catalog, feed, watch_remnants,
                   offer_ids, stocks, prices, batches, page, product_list,
                   http, escaped, coroutines>>

\* the for loop over the stock batches is exhausted
update_stocks_done ==
    /\ pc = "update_stocks"
    /\ batches = <<>>
    /\ pc' = IF entry = "seller.main" THEN "create_prices" ELSE "upload_prices"
    /\ UNCHANGED <<fnVars, entry, campaign, catalog, feed, watch_remnants,
                   offer_ids, stocks, prices, batches, page, product_list,
                   http, printed, escaped, coroutines>>

\* seller.py 264-265 (main, batches of 900) and 221-222 (upload_prices,
\* batches of 1000)
seller_create_prices_step ==
    /\ pc = "create_prices"
    /\ Module = "seller"
    /\ LET r == seller_create_prices(watch_remnants, offer_ids)
           n == IF entry = "seller.main" THEN SellerPriceBatch
                ELSE SellerUploadPriceBatch
       IN  IF r.raised = "none"
           THEN /\ prices' = r.prices
                /\ batches' = divide(r.prices, n)
                /\ pc' = "update_price"
                /\ UNCHANGED <<printed, escaped>>
           ELSE IF entry = "seller.main"
           THEN Handle(r.raised) /\ UNCHANGED <<prices, batches, escaped>>
           ELSE pc' = "raised" /\ escaped' = r.raised
                /\ UNCHANGED <<prices, batches, printed>>
    /\ UNCHANGED <<fnVars, entry, campaign, catalog, feed, watch_remnants,
                   offer_ids, stocks, page, product_list, http, coroutines>>

\* market.py 215-216 (upload_prices)
market_create_prices_step ==
    /\ pc = "create_prices"
    /\ Module = "market"
    /\ LET r == market_create_prices(watch_remnants, offer_ids)
       IN  IF r.raised = "none"
           THEN /\ prices' = r.prices
                /\ batches' = divide(r.prices, MarketPriceBatch)
                /\ pc' = "update_price"
                /\ UNCHANGED escaped
           ELSE pc' = "raised" /\ escaped' = r.raised
                /\ UNCHANGED <<prices, batches>>
    /\ UNCHANGED <<fnVars, entry, campaign, catalog, feed, watch_remnants,
                   offer_ids, stocks, page, product_list, http, printed,
                   coroutines>>

\* the for loop over the price batches is exhausted
update_price_done ==
    /\ pc = "update_price"
    /\ batches = <<>>
    /\ pc' = IF entry = "seller.main" THEN "done" ELSE "returned"
    /\ UNCHANGED <<fnVars, entry, campaign, catalog, feed, watch_remnants,
                   offer_ids, stocks, prices, batches, page, product_list,
                   http, printed, escaped, coroutines>>

\* market.py 268 and 277: upload_prices(...) is called and not awaited: the
\* call makes a coroutine object and runs nothing of the function's body
market_main_upload_prices ==
    /\ pc = "upload_prices"
    /\ entry = "market.main"
    /\ coroutines' = coroutines + 1
    /\ IF campaign = "FBS_ID"
       THEN campaign' = "DBS_ID" /\ pc' = "get_offer_ids"
       ELSE pc' = "done" /\ UNCHANGED campaign
    /\ UNCHANGED <<fnVars, entry, catalog, feed, watch_remnants, offer_ids,
                   stocks, prices, batches, page, product_list, http, printed,
                   escaped>>

\* the rows download_stock may return
FeedRows ==
    {[Code |-> c, Quantity |-> q, Price |-> p] :
        c \in Codes,
        q \in {Str(<<">", "1", "0">>), Str(<<"1">>), Str(<<>>)},
        p \in {Str(<<"1", "5", ".", "5", "x">>), Str(<<"x">>)}}

MainInit ==
    /\ NoCall
    /\ feed \in SeqsUpTo(FeedRows, MaxRows)
    /\ \/ /\ entry = "seller.main"
          /\ pc = "get_offer_ids"
          /\ campaign = "CLIENT_ID"
          /\ catalog \in [{"CLIENT_ID"} -> OfferIdLists]
          /\ watch_remnants = <<>>
       \/ /\ entry = "market.main"
          /\ pc = "download_stock"
          /\ campaign = "FBS_ID"
          /\ catalog \in [{"FBS_ID", "DBS_ID"} -> OfferIdLists]
          /\ watch_remnants = <<>>
       \/ /\ entry = "seller.upload_prices"
          /\ pc = "get_offer_ids"
          /\ campaign = "CLIENT_ID"
          /\ catalog \in [{"CLIENT_ID"} -> OfferIdLists]
          /\ watch_remnants = feed
       \/ /\ entry = "market.upload_prices"
          /\ pc = "get_offer_ids"
          /\ campaign = "FBS_ID"
          /\ catalog \in [{"FBS_ID"} -> OfferIdLists]
          /\ watch_remnants = feed
    /\ offer_ids = <<>>
    /\ stocks = <<>>
    /\ prices = <<>>
    /\ batches = <<>>
    /\ page = <<>>
    /\ product_list = <<>>
    /\ http = <<>>
    /\ printed = <<>>
    /\ escaped = "none"
    /\ coroutines = 0

MainNext ==
    \/ seller_get_offer_ids_iteration
    \/ market_get_offer_ids_iteration
    \/ get_product_list_raises
    \/ download_stock_returns
    \/ download_stock_raises
    \/ seller_main_create_stocks
    \/ market_main_create_stocks
    \/ update_batch
    \/ update_batch_raises
    \/ update_stocks_done
    \/ seller_create_prices_step
    \/ market_create_prices_step
    \/ update_price_done
    \/ market_main_upload_prices

MainSpec == MainInit /\ [][MainNext]_vars

---------------------------------------------------------------------------
(* Claims *)

RECURSIVE Concat(_)
Concat(ss) == IF ss = <<>> THEN <<>> ELSE Head(ss) \o Concat(Tail(ss))

CeilDiv(a, b) == (a + b - 1) \div b

\* C6: for a list of length L and a chunk size N > 0, the chunks divide
\* yields concatenate to the list, there are ceil(L/N) of them, every chunk
\* but the last has length N and the last has length 1..N.
C6_DividePartitions ==
    (returned /\ call.fn = "divide") =>
        /\ Concat(ret) = call.lst
        /\ Len(ret) = CeilDiv(Len(call.lst), call.n)
        /\ \A k \in 1..Len(ret) :
              /\ k < Len(ret) => Len(ret[k]) = call.n
              /\ k = Len(ret) => Len(ret[k]) \in 1..call.n

C6_Witness ==
    /\ returned
    /\ call.fn = "divide"
    /\ Len(call.lst) = 5
    /\ call.n = 2
    /\ Len(ret) = 3
    /\ Len(ret[3]) = 1

\* C7: price_conversion returns the digits, in order, of the part of the
\* string before its first "." (the whole string when it has none); the
\* result holds digits only.
C7_PriceDigitsBeforeDot ==
    (returned /\ call.fn = "price_conversion") =>
        LET p == call.price
            digits == {"0", "1", "2", "3", "4", "5", "6", "7", "8", "9"}
            dots == {i \in 1..Len(p) : p[i] = "."}
            stop == IF dots = {} THEN Len(p) + 1
                    ELSE CHOOSE i \in dots : \A j \in dots : i <= j
            kept == {i \in 1..(stop - 1) : p[i] \in digits}
        IN  /\ \A i \in 1..Len(ret) : ret[i] \in digits
            /\ Len(ret) = Cardinality(kept)
            /\ \A i \in kept :
                  ret[Cardinality({j \in kept : j <= i})] = p[i]

C7_Witness ==
    /\ returned
    /\ call.fn = "price_conversion"
    /\ call.price = <<"5", "'", ".", "1">>
    /\ ret = <<"5">>

IsCreateStocks == call.fn \in {"seller.create_stocks", "market.create_stocks"}

IsCreatePrices == call.fn \in {"seller.create_prices", "market.create_prices"}

\* the offer identifier and the count a stock record carries
StockId(r) == IF call.fn = "seller.create_stocks" THEN r.offer_id ELSE r.sku

StockCount(r) ==
    IF call.fn = "seller.create_stocks" THEN r.stock ELSE r.items[1].count

PriceId(r) == IF call.fn = "seller.create_prices" THEN r.offer_id ELSE r.id

\* the identifier a Code cell stands for
CodeText(c) ==
    CASE c = Str(<<"A">>) -> <<"A">>
      [] c = Int_(7) -> <<"7">>
      [] c = Str(<<"Z">>) -> <<"Z">>

\* Quantity cells the classification rule covers, and the counts it gives
Classifiable ==
    {Str(<<">", "1", "0">>), Str(<<"1">>), Str(<<"7">>), Str(<<"0">>),
     Str(<<"1", "0">>), Int_(1), Int_(7)}

FreeForm == {Str(<<>>), Str(<<"n", "o">>)}

RuleCount(q) ==
    CASE q = Str(<<">", "1", "0">>) -> 100
      [] q \in {Str(<<"1">>), Int_(1)} -> 0
      [] q \in {Str(<<"7">>), Int_(7)} -> 7
      [] q = Str(<<"0">>) -> 0
      [] q = Str(<<"1", "0">>) -> 10

\* the rows create_stocks matches: the first row of each Code that is an
\* offer identifier of the call
MatchedRows ==
    {i \in 1..Len(call.watch_remnants) :
        /\ In(CodeText(call.watch_remnants[i].Code), call.offer_ids)
        /\ \A j \in 1..(i - 1) :
              call.watch_remnants[j].Code # call.watch_remnants[i].Code}

\* C1: with every Quantity classifiable and no duplicate in the offer
\* identifiers S, create_stocks (both variants) returns stock records that
\* carry exactly the identifiers of S, each in exactly one record.
C1_StockIdsAreExactlyS ==
    (/\ returned
     /\ IsCreateStocks
     /\ \A i \in 1..Len(call.watch_remnants) :
           call.watch_remnants[i].Quantity \in Classifiable) =>
        /\ ret.raised = "none"
        /\ \A id \in Range(call.offer_ids) :
              Cardinality({k \in 1..Len(ret.stocks) : StockId(ret.stocks[k]) = id}) = 1
        /\ \A k \in 1..Len(ret.stocks) :
              StockId(ret.stocks[k]) \in Range(call.offer_ids)

\* two rows of one Code and an identifier with no row
C1_Witness ==
    /\ returned
    /\ IsCreateStocks
    /\ Len(call.watch_remnants) = 2
    /\ call.watch_remnants[1].Code = Str(<<"A">>)
    /\ call.watch_remnants[2].Code = Str(<<"A">>)
    /\ call.watch_remnants[1].Quantity = Str(<<"7">>)
    /\ call.watch_remnants[2].Quantity = Str(<<">", "1", "0">>)
    /\ call.offer_ids = <<<<"7">>, <<"A">>>>
    /\ ret.raised = "none"
    /\ Len(ret.stocks) = 2
    /\ StockId(ret.stocks[1]) = <<"A">>
    /\ StockId(ret.stocks[2]) = <<"7">>

\* C4: the stock record of every matched row carries the count the Quantity
\* Classification Rule gives its Quantity (">10" -> 100, "1" -> 0, any other
\* integer n -> n), in row order, in both variants of create_stocks.
C4_CountsFollowRule ==
    (/\ returned
     /\ IsCreateStocks
     /\ \A i \in MatchedRows : call.watch_remnants[i].Quantity \in Classifiable) =>
        /\ ret.raised = "none"
        /\ \A i \in MatchedRows :
              LET k == Cardinality({j \in MatchedRows : j <= i})
              IN  /\ StockId(ret.stocks[k]) = CodeText(call.watch_remnants[i].Code)
                  /\ StockCount(ret.stocks[k]) =
                         RuleCount(call.watch_remnants[i].Quantity)

C4_Witness ==
    /\ returned
    /\ call.fn = "market.create_stocks"
    /\ Len(call.watch_remnants) = 2
    /\ call.watch_remnants[1].Code = Int_(7)
    /\ call.watch_remnants[1].Quantity = Str(<<"1">>)
    /\ call.watch_remnants[2].Code = Str(<<"A">>)
    /\ call.watch_remnants[2].Quantity = Str(<<"7">>)
    /\ call.offer_ids = <<<<"A">>, <<"7">>>>
    /\ ret.raised = "none"
    /\ StockCount(ret.stocks[1]) = 0
    /\ StockCount(ret.stocks[2]) = 7

\* C5: a matched row whose Quantity is free-form (an empty cell, a word) is
\* treated as zero: create_stocks completes and the row's record has count 0.
C5_FreeFormIsZero ==
    (returned /\ IsCreateStocks) =>
        /\ ret.raised = "none"
        /\ \A i \in MatchedRows :
              call.watch_remnants[i].Quantity \in FreeForm =>
                  StockCount(ret.stocks[Cardinality({j \in MatchedRows : j <= i})]) = 0

\* C10: no offer identifier appears in more than one price record that
\* create_prices emits, also when several rows have the same Code.
C10_PriceIdsDistinct ==
    (returned /\ IsCreatePrices /\ ret.raised = "none") =>
        \A j, k \in 1..Len(ret.prices) :
            PriceId(ret.prices[j]) = PriceId(ret.prices[k]) => j = k

\* the records of the price batches submitted for campaign c, in order
RECURSIVE SubmittedPrices(_, _)
SubmittedPrices(c, n) ==
    IF n = 0 THEN <<>>
    ELSE SubmittedPrices(c, n - 1) \o
         (IF http[n].op = "update_price" /\ http[n].campaign = c
          THEN http[n].sent ELSE <<>>)

\* the rows of the feed whose Code is an offer identifier campaign c lists
RowsListedIn(c) ==
    SelectSeq(feed, LAMBDA row : In(CodeText(row.Code), catalog[c]))

\* the digits before the first "." of the Price cells of the feed
PriceText(p) ==
    CASE p = Str(<<"1", "5", ".", "5", "x">>) -> <<"1", "5">>
      [] p = Str(<<"x">>) -> <<>>

\* C2: a failure-free run of seller.main submits one price record per
\* supplier row whose Code is among the resolved offer identifiers, in row
\* order, and none for any other identifier.
C2_SellerMainSubmitsPrices ==
    (entry = "seller.main" /\ pc = "done") =>
        LET want == RowsListedIn("CLIENT_ID")
            sent == SubmittedPrices("CLIENT_ID", Len(http))
        IN  /\ Len(sent) = Len(want)
            /\ \A k \in 1..Len(want) :
                  /\ sent[k].offer_id = CodeText(want[k].Code)
                  /\ sent[k].price = PriceText(want[k].Price)

\* C3: in a failure-free run of market.main (every Price cell holds digits,
\* no step raises) the DBS steps begin only after the FBS price batches have
\* been submitted, the run ends only after the DBS price batches have been,
\* and within a program no stock batch follows a price batch.
C3_MarketMainStocksThenPrices ==
    (/\ entry = "market.main"
     /\ pc \notin {"handled", "crashed"}
     /\ \A i \in 1..Len(feed) : PriceText(feed[i].Price) # <<>>) =>
        /\ campaign = "DBS_ID" =>
              Len(SubmittedPrices("FBS_ID", Len(http))) = Len(RowsListedIn("FBS_ID"))
        /\ pc = "done" =>
              Len(SubmittedPrices("DBS_ID", Len(http))) = Len(RowsListedIn("DBS_ID"))
        /\ \A i, j \in 1..Len(http) :
              (i < j /\ http[i].campaign = http[j].campaign) =>
                  ~(http[i].op = "update_price" /\ http[j].op = "update_stocks")

\* C8: in both entry points a failure of any step of the run is caught by
\* the top-level handler: a message is printed and no exception leaves main.
C8_FailuresAreCaught ==
    entry \in Mains =>
        /\ escaped = "none"
        /\ pc # "crashed"
        /\ pc = "handled" => Len(printed) = 1

IsGetOfferIds == entry \in {"seller.get_offer_ids", "market.get_offer_ids"}

\* the offer identifiers of the items of the n-th listing response
PageOfferIds(n) ==
    IF entry = "seller.get_offer_ids"
    THEN [i \in 1..Len(http[n].got.items) |-> http[n].got.items[i].offer_id]
    ELSE [i \in 1..Len(http[n].got.offerMappingEntries) |->
             http[n].got.offerMappingEntries[i].offer.shopSku]

RECURSIVE FetchedOfferIds(_)
FetchedOfferIds(n) ==
    IF n = 0 THEN <<>> ELSE FetchedOfferIds(n - 1) \o PageOfferIds(n)

\* the n-th listing response signals exhaustion
Signalled(n) ==
    IF entry = "seller.get_offer_ids"
    THEN http[n].got.total = Len(FetchedOfferIds(n))
    ELSE http[n].got.paging.nextPageToken = <<>>

C9_RequestsUntilExhaustion ==
    IsGetOfferIds =>
        /\ \A n \in 1..(Len(http) - 1) : ~Signalled(n)
        /\ (pc = "get_offer_ids" /\ http # <<>>) => ~Signalled(Len(http))
        /\ pc = "returned" =>
              /\ Len(http) >= 1
              /\ Signalled(Len(http))
              /\ offer_ids = FetchedOfferIds(Len(http))
              /\ offer_ids = catalog[campaign]

\* C9: get_offer_ids makes at least one listing request, requests pages
\* until a response signals exhaustion and none after it, and returns the
\* offer identifier of every item fetched in fetch order; against a service
\* that reports a constant total and serves each item once it terminates
\* with every listed identifier exactly once.
C9_GetOfferIdsCollectsAll ==
    /\ [](C9_RequestsUntilExhaustion)
    /\ <>(IsGetOfferIds => pc = "returned")

C9_Witness ==
    /\ entry = "seller.get_offer_ids"
    /\ pc = "returned"
    /\ Len(http) = 2
    /\ Len(http[1].got.items) = 2
    /\ offer_ids = <<<<"B">>, <<"7">>, <<"A">>>>

===========================================================================
